---- MODULE Spec2Model ----
(***************************************************************************)
(* A model of sescrp, the Standard Ebooks scraper.                         *)
(*                                                                         *)
(* Text is modelled as a sequence of symbols.  Every symbol stands for a   *)
(* fixed piece of text, so that suffix tests and regular-expression        *)
(* matches can be computed on the sequence exactly as the Go code computes *)
(* them on the characters:                                                 *)
(*   URL symbols                                                           *)
(*     "O"  https://standardebooks.org/     "X"  http://example.com/       *)
(*     "E"  ebooks/                         "C"  collections/              *)
(*     "a"  one letter of [A-Za-z\-]        "1"  one digit                 *)
(*     "/"  a slash                                                        *)
(*   file-name symbols                                                     *)
(*     "book"  "_advanced"  ".kepub"  ".epub"  ".azw3"                     *)
(*     "%zz"   an invalid percent escape (url.Parse rejects it)            *)
(*     " "     a space     "%20"  its escaped form                         *)
(*   format-list symbols                                                   *)
(*     "epub" "azw3" "kepub" "aepub" "mobi" and the separator ","          *)
(***************************************************************************)
EXTENDS Integers, Sequences, FiniteSets, TLC

VARIABLES
    pc,         \* position of the single goroutine (main / NormalizeURLs)
    args,       \* urlsToProcess as handed to NormalizeURLs
    formats,    \* the -formats flag value
    rawURLs,    \* NormalizeURLs: rawURLs after RemoveStringDuplicates
    parser,     \* NormalizeURLs: ebookParser.extensionsTesters
    idx,        \* NormalizeURLs: index of the outer range loop
    kind,       \* NormalizeURLs: branch taken for rawURLs[idx]
    booksURLs,  \* NormalizeURLs: booksURLs of the current list page
    bidx,       \* NormalizeURLs: index of the inner range loop
    urls,       \* NormalizeURLs: urls returned by the last Parse
    finalURLs,  \* NormalizeURLs: finalURLs.set, canonical string -> URL
    err,        \* the error NormalizeURLs returns (NoErr for nil)
    resp,       \* the response in hand
    timerArmed, \* time.Timer: the runtime timer is pending
    timerC,     \* time.Timer: number of ticks buffered in timer.C (0 or 1)
    slice,      \* main: urls.ToSlice(), what is left to download
    events,     \* history: wait / get / read / reset, in program order
    reqLog,     \* history: every client.Get issued, [url, role]
    input,      \* argument of the pure function under study
    output,     \* its result
    parseLog    \* history: every page parsed without error,
                \* [url, role, parser, links]

vars == <<pc, args, formats, rawURLs, parser, idx, kind, booksURLs, bidx, urls,
          finalURLs, err, resp, timerArmed, timerC, slice, events, reqLog,
          input, output, parseLog>>

runVars == <<pc, args, formats, rawURLs, parser, idx, kind, booksURLs, bidx,
             urls, finalURLs, err, resp, timerArmed, timerC, slice, events,
             reqLog, parseLog>>

-----------------------------------------------------------------------------
(* Bounds *)

MaxNameLen == 3

MaxURLLen == 5

MaxFormatLen == 3

MaxNodes == 3

MaxRawURLs == 2

MaxListNodes == 4

MaxAdds == 3

MaxStrings == 4

MaxFairURLs == 1

-----------------------------------------------------------------------------
(* Sequences of symbols *)

SeqsUpTo(S, n) == UNION {[1..k -> S] : k \in 0..n}

\* strings.HasSuffix
HasSuffix(s, suffix) ==
    /\ Len(s) >= Len(suffix)
    /\ SubSeq(s, Len(s) - Len(suffix) + 1, Len(s)) = suffix

Range(s) == {s[i] : i \in 1..Len(s)}

\* the elements of a finite set in some order: Go's map iteration order
Orders(S) ==
    {s \in [1..Cardinality(S) -> S] : \A i, j \in 1..Cardinality(S) : i # j => s[i] # s[j]}

-----------------------------------------------------------------------------
(* parsers.go: the format testers *)

FormatNames == {"epub", "azw3", "kepub", "aepub"}

\* variant: the epub tester without its two exclusions
FormatsTesters_NoExclusion(name, s) ==
    CASE name = "epub"  -> HasSuffix(s, <<".epub">>)
      [] name = "azw3"  -> HasSuffix(s, <<".azw3">>)
      [] name = "kepub" -> HasSuffix(s, <<".kepub", ".epub">>)
      [] name = "aepub" -> HasSuffix(s, <<"_advanced", ".epub">>)

FormatsTesters(name, s) ==
    CASE name = "epub"  -> /\ HasSuffix(s, <<".epub">>)
                           /\ ~HasSuffix(s, <<".kepub", ".epub">>)
                           /\ ~HasSuffix(s, <<"_advanced", ".epub">>)
      [] name = "azw3"  -> HasSuffix(s, <<".azw3">>)
      [] name = "kepub" -> HasSuffix(s, <<".kepub", ".epub">>)
      [] name = "aepub" -> HasSuffix(s, <<"_advanced", ".epub">>)

\* strings.Split(s, ","): the fields between the separators
RECURSIVE Split(_)
Split(s) ==
    IF \A i \in 1..Len(s) : s[i] # ","
    THEN <<s>>
    ELSE LET k == CHOOSE i \in 1..Len(s) :
                      s[i] = "," /\ \A j \in 1..(i - 1) : s[j] # ","
         IN <<SubSeq(s, 1, k - 1)>> \o Split(SubSeq(s, k + 1, Len(s)))

\* FormatsTesters[ext]: the key ext is present
IsFormat(field) == Len(field) = 1 /\ field[1] \in FormatNames

NoToken == <<"<nil>">>

RECURSIVE TestersLoop_SkipUnknown(_, _, _)
\* variant: an unknown extension is skipped instead of reported
TestersLoop_SkipUnknown(fields, i, testers) ==
    IF i > Len(fields)
    THEN [testers |-> testers, bad |-> NoToken]
    ELSE IF ~IsFormat(fields[i])
         THEN TestersLoop_SkipUnknown(fields, i + 1, testers)
         ELSE TestersLoop_SkipUnknown(fields, i + 1, Append(testers, fields[i][1]))

\* the range loop of NewEbookPageParser
RECURSIVE TestersLoop(_, _, _)
TestersLoop(fields, i, testers) ==
    IF i > Len(fields)
    THEN [testers |-> testers, bad |-> NoToken]
    ELSE IF ~IsFormat(fields[i])
         THEN [testers |-> <<>>, bad |-> fields[i]]
         ELSE TestersLoop(fields, i + 1, Append(testers, fields[i][1]))

\* bad = NoToken: (parser, nil); otherwise (nil, "the extension bad is not supported")
NewEbookPageParser(extensions) == TestersLoop(Split(extensions), 1, <<>>)

\* EbookPageParser.urlMatches
urlMatches(testers, url) ==
    \E i \in 1..Len(testers) : FormatsTesters(testers[i], url)

-----------------------------------------------------------------------------
(* net/url as the program uses it *)

\* url.Parse fails on an invalid percent escape
URLParseOK(raw) == "%zz" \notin Range(raw)

\* url.Parse: the path is stored unescaped
URLParse(raw) == [i \in 1..Len(raw) |-> IF raw[i] = "%20" THEN " " ELSE raw[i]]

\* (*url.URL).String: the path is escaped again
URLString(u) == [i \in 1..Len(u) |-> IF u[i] = " " THEN "%20" ELSE u[i]]

IsAbs(u) == Len(u) > 0 /\ u[1] \in {"O", "X"}

\* StandardEbooksMainURL.ResolveReference(u)
ResolveReference(u) ==
    IF IsAbs(u) THEN u
    ELSE IF Len(u) > 0 /\ u[1] = "/" THEN <<"O">> \o Tail(u)
    ELSE <<"O">> \o u

-----------------------------------------------------------------------------
(* The regular expressions.  regexp.MatchString searches the whole string  *)
(* for a match; none of the expressions starts with ^, all end with $.     *)

\* the literal https://standardebooks.org/ sits at position i
OriginAt(s, i) == i \in 1..Len(s) /\ s[i] = "O"

\* [A-Za-z\-]+/ matches from position j up to and including position k:
\* "E" and "C" are letters followed by a slash
SlugSlash(s, j, k) ==
    /\ j <= k /\ k <= Len(s)
    /\ \A m \in j..(k - 1) : s[m] = "a"
    /\ \/ s[k] = "/" /\ k > j
       \/ s[k] \in {"E", "C"}

\* [A-Za-z\-]+[/]?$ matches from position j to the end of the string
SlugEnd(s, j) ==
    /\ j <= Len(s)
    /\ \/ \A m \in j..Len(s) : s[m] = "a"
       \/ SlugSlash(s, j, Len(s))

\* https://standardebooks.org/ebooks/[A-Za-z\-]+/.*[/]?$ with the match starting at i
EbookAt(s, i) ==
    /\ OriginAt(s, i)
    /\ i + 1 <= Len(s) /\ s[i + 1] = "E"
    /\ \E k \in (i + 2)..Len(s) : SlugSlash(s, i + 2, k)

\* https://standardebooks.org/ebooks/[A-Za-z\-]+[/]?$ with the match starting at i
AuthorAt(s, i) ==
    /\ OriginAt(s, i)
    /\ i + 1 <= Len(s) /\ s[i + 1] = "E"
    /\ SlugEnd(s, i + 2)

\* https://standardebooks.org/collections/.*[/]?$ with the match starting at i
CollectionAt(s, i) ==
    /\ OriginAt(s, i)
    /\ i + 1 <= Len(s) /\ s[i + 1] = "C"

StandardEbooksMainRegex(s) == \E i \in 1..Len(s) : OriginAt(s, i)

EbookURLRegex(s) == \E i \in 1..Len(s) : EbookAt(s, i)

AuthorURLRegex(s) == \E i \in 1..Len(s) : AuthorAt(s, i)

CollectionURLRegex(s) == \E i \in 1..Len(s) : CollectionAt(s, i)

\* the if / else-if chain of NormalizeURLs' loop body
Branch(rawURL) ==
    IF ~StandardEbooksMainRegex(rawURL) THEN "notse"
    ELSE IF EbookURLRegex(rawURL) THEN "ebook"
    ELSE IF CollectionURLRegex(rawURL) THEN "collection"
    ELSE IF AuthorURLRegex(rawURL) THEN "author"
    ELSE "invalid"

-----------------------------------------------------------------------------
(* URLSet and RemoveStringDuplicates *)

\* NewURLSet: an empty map
NewURLSet == <<>>

RECURSIVE URLSetAdd_ByValue(_, _)
\* variant: the map is keyed by the URL value, not by its string form
URLSetAdd_ByValue(set, us) ==
    IF us = <<>> THEN set
    ELSE LET u == Head(us)
         IN URLSetAdd_ByValue([x \in DOMAIN set \cup {u} |->
                                  IF x = u THEN u ELSE set[x]], Tail(us))

RECURSIVE URLSetAdd(_, _)
\* URLSet.Add: uset.set[u.String()] = u for each u in order
URLSetAdd(set, us) ==
    IF us = <<>> THEN set
    ELSE LET u == Head(us)
             k == URLString(u)
         IN URLSetAdd([x \in DOMAIN set \cup {k} |-> IF x = k THEN u ELSE set[x]],
                      Tail(us))

\* URLSet.ToSlice: the members, in the order the map iteration yields them
ToSlice(set) == {[i \in 1..Len(o) |-> set[o[i]]] : o \in Orders(DOMAIN set)}

RECURSIVE RemoveStringDuplicates_KeepLast(_)
\* variant: of equal strings the last one is kept
RemoveStringDuplicates_KeepLast(s) ==
    IF s = <<>> THEN <<>>
    ELSE IF Head(s) \in Range(Tail(s))
         THEN RemoveStringDuplicates_KeepLast(Tail(s))
         ELSE <<Head(s)>> \o RemoveStringDuplicates_KeepLast(Tail(s))

RECURSIVE RemoveStringDuplicates(_)
\* keeps the first occurrence of every string
RemoveStringDuplicates(s) ==
    IF s = <<>> THEN <<>>
    ELSE LET r == RemoveStringDuplicates(SubSeq(s, 1, Len(s) - 1))
             x == s[Len(s)]
         IN IF x \in Range(r) THEN r ELSE Append(r, x)

-----------------------------------------------------------------------------
(* HTML documents, as html.Parse hands them to the page parsers.  A        *)
(* document is the sequence of the nodes below <body> in document order;   *)
(* Parent is the index of the parent node, 0 for <body> itself.            *)

Body == [Type |-> "element", Data |-> "body", Attr |-> <<>>, Parent |-> 0]

\* n.Parent of node i
ParentOf(doc, i) == IF doc[i].Parent = 0 THEN Body ELSE doc[doc[i].Parent]

\* n.Parent.Parent of node i
GrandParentOf(doc, i) ==
    IF doc[i].Parent = 0 \/ doc[doc[i].Parent].Parent = 0 THEN Body
    ELSE doc[doc[doc[i].Parent].Parent]

NoErr == <<"<nil>">>

RECURSIVE EbookAttrLoop_NoKeyTest(_, _, _, _)
\* variant: the attribute's key is not looked at
EbookAttrLoop_NoKeyTest(testers, attrs, k, links) ==
    IF k > Len(attrs) THEN [links |-> links, err |-> NoErr]
    ELSE IF urlMatches(testers, attrs[k].Val)
         THEN IF ~URLParseOK(attrs[k].Val)
              THEN [links |-> links, err |-> attrs[k].Val]
              ELSE EbookAttrLoop_NoKeyTest(testers, attrs, k + 1,
                                 Append(links, URLParse(attrs[k].Val)))
         ELSE EbookAttrLoop_NoKeyTest(testers, attrs, k + 1, links)

RECURSIVE EbookAttrLoop(_, _, _, _)
\* EbookPageParser.Parse: the loop over n.Attr; err is the offending href
EbookAttrLoop(testers, attrs, k, links) ==
    IF k > Len(attrs) THEN [links |-> links, err |-> NoErr]
    ELSE IF attrs[k].Key = "href" /\ urlMatches(testers, attrs[k].Val)
         THEN IF ~URLParseOK(attrs[k].Val)
              THEN [links |-> links, err |-> attrs[k].Val]
              ELSE EbookAttrLoop(testers, attrs, k + 1,
                                 Append(links, URLParse(attrs[k].Val)))
         ELSE EbookAttrLoop(testers, attrs, k + 1, links)

RECURSIVE ListAttrLoop(_, _, _)
\* CollectionPageParser.Parse, AuthorPageParser.Parse: the loop over n.Attr
ListAttrLoop(attrs, k, links) ==
    IF k > Len(attrs) THEN [links |-> links, err |-> NoErr]
    ELSE IF attrs[k].Key = "href"
         THEN IF ~URLParseOK(attrs[k].Val)
              THEN [links |-> links, err |-> attrs[k].Val]
              ELSE ListAttrLoop(attrs, k + 1, Append(links, URLParse(attrs[k].Val)))
         ELSE ListAttrLoop(attrs, k + 1, links)

\* variant: the attributes of the <p> are not looked at
CollectionPredicate_AnyP(doc, i) ==
    /\ ParentOf(doc, i).Type = "element"
    /\ ParentOf(doc, i).Data = "p"
    /\ GrandParentOf(doc, i).Type = "element"
    /\ GrandParentOf(doc, i).Data = "li"

\* the structural test of CollectionPageParser.Parse
CollectionPredicate(doc, i) ==
    /\ ParentOf(doc, i).Type = "element"
    /\ ParentOf(doc, i).Data = "p"
    /\ Len(ParentOf(doc, i).Attr) = 0
    /\ GrandParentOf(doc, i).Type = "element"
    /\ GrandParentOf(doc, i).Data = "li"

\* the structural test of AuthorPageParser.Parse
AuthorPredicate(doc, i) ==
    /\ ParentOf(doc, i).Type = "element"
    /\ ParentOf(doc, i).Data = "p"
    /\ Len(ParentOf(doc, i).Attr) = 0
    /\ GrandParentOf(doc, i).Type = "element"
    /\ GrandParentOf(doc, i).Data = "li"

\* what one call of parseF does at node i before it recurses
VisitNode(which, testers, doc, i, links) ==
    IF doc[i].Type = "element" /\ doc[i].Data = "a"
    THEN CASE which = "ebook" -> EbookAttrLoop(testers, doc[i].Attr, 1, links)
           [] which = "collection" ->
                IF CollectionPredicate(doc, i)
                THEN ListAttrLoop(doc[i].Attr, 1, links)
                ELSE [links |-> links, err |-> NoErr]
           [] which = "author" ->
                IF AuthorPredicate(doc, i)
                THEN ListAttrLoop(doc[i].Attr, 1, links)
                ELSE [links |-> links, err |-> NoErr]
    ELSE [links |-> links, err |-> NoErr]

ParseStart == [links |-> <<>>, err |-> NoErr, returned |-> {}, examined |-> <<>>]

RECURSIVE ParseF(_, _, _, _, _)
\* The depth-first walk of parseF over the whole document, node by node in
\* document order.  A call that sets err returns before it recurses, so the
\* nodes below it are not visited (returned holds those calls and the nodes
\* they cut off); its caller's loop over the siblings goes on, and a later
\* call overwrites err.
ParseF(which, testers, doc, i, acc) ==
    IF i > Len(doc) THEN acc
    ELSE IF doc[i].Parent \in acc.returned
    THEN ParseF(which, testers, doc, i + 1,
                [acc EXCEPT !.returned = @ \cup {i}])
    ELSE LET r == VisitNode(which, testers, doc, i, acc.links)
         IN ParseF(which, testers, doc, i + 1,
                   [links    |-> r.links,
                    err      |-> IF r.err # NoErr THEN r.err ELSE acc.err,
                    returned |-> IF r.err # NoErr THEN acc.returned \cup {i}
                                 ELSE acc.returned,
                    examined |-> Append(acc.examined, i)])

\* Parse of the three page parsers on a document html.Parse accepted:
\* return finalUrls, err
Parse(which, testers, doc) == ParseF(which, testers, doc, 1, ParseStart)

-----------------------------------------------------------------------------
(* Inputs of the pure functions *)

NameAlphabet == {"book", ".kepub", "_advanced", ".epub", ".azw3"}

URLAlphabet == {"O", "X", "E", "C", "a", "1", "/"}

FormatAlphabet == {"epub", "mobi", ","}

hEpub == <<"book", ".epub">>

hKepub == <<"book", ".kepub", ".epub">>

hAzw3 == <<"book", ".azw3">>

hAepub == <<"book", "_advanced", ".epub">>

hBadEpub == <<"%zz", ".epub">>

hBadAzw3 == <<"%zz", ".azw3">>

Elem(data, attr) == [Type |-> "element", Data |-> data, Attr |-> attr]

Href(val) == <<[Key |-> "href", Val |-> val]>>

\* the kinds of node an ebook page is made of here
EbookNodePool ==
    {Elem("div", <<>>), Elem("a", <<[Key |-> "title", Val |-> hEpub]>>)}
    \cup {Elem("a", Href(h)) : h \in {hEpub, hKepub, hAzw3, hAepub, hBadEpub, hBadAzw3}}

RECURSIVE AncestorsIn(_, _)
AncestorsIn(p, i) == IF i = 0 THEN {0} ELSE {i} \cup AncestorsIn(p, p[i])

\* the parent vectors of the trees with k nodes, written in document order
ParentVectors(k) ==
    {p \in [1..k -> 0..(k - 1)] :
        \A i \in 1..k : /\ p[i] < i
                        /\ i > 1 => p[i] \in AncestorsIn(p, i - 1)}

MkDoc(nodes, p) ==
    [i \in 1..Len(nodes) |->
        [Type |-> nodes[i].Type, Data |-> nodes[i].Data,
         Attr |-> nodes[i].Attr, Parent |-> p[i]]]

\* doc is a document of at most n nodes, each of a kind in pool
IsDocOf(doc, pool, n) ==
    \E k \in 0..n : \E p \in ParentVectors(k) : \E nodes \in [1..k -> pool] :
        doc = MkDoc(nodes, p)

AllFormats == <<"epub", ",", "azw3", ",", "kepub", ",", "aepub">>

\* the -formats values the parser under study is built from
ParserFormats == {<<"epub">>, <<"kepub", ",", "azw3">>, AllFormats}

-----------------------------------------------------------------------------
(* The program at rest: what the run's variables hold while a pure         *)
(* function is studied on its own.                                         *)

NoResp == [status |-> 0, readOK |-> FALSE, doc |-> <<>>]

RunIdle ==
    /\ pc = "idle" /\ args = <<>> /\ formats = <<>> /\ rawURLs = <<>>
    /\ parser = <<>> /\ idx = 0 /\ kind = "none" /\ booksURLs = <<>>
    /\ bidx = 0 /\ urls = <<>> /\ finalURLs = NewURLSet /\ err = NoErr
    /\ resp = NoResp /\ timerArmed = FALSE /\ timerC = 0 /\ slice = <<>>
    /\ events = <<>> /\ reqLog = <<>> /\ parseLog = <<>>

Pending == [done |-> FALSE]

-----------------------------------------------------------------------------
(* The format testers applied to a file name *)

InitFormat ==
    /\ RunIdle
    /\ input \in SeqsUpTo(NameAlphabet, MaxNameLen)
    /\ output = Pending

TestFormat ==
    /\ output = Pending
    /\ output' = [done |-> TRUE,
                  matches |-> {f \in FormatNames : FormatsTesters(f, input)}]
    /\ UNCHANGED <<runVars, input>>

SpecFormat == InitFormat /\ [][TestFormat]_vars

-----------------------------------------------------------------------------
(* The classification of one raw URL *)

InitClassify ==
    /\ RunIdle
    /\ input \in SeqsUpTo(URLAlphabet, MaxURLLen)
    /\ output = Pending

Classify ==
    /\ output = Pending
    /\ output' = [done |-> TRUE, branch |-> Branch(input)]
    /\ UNCHANGED <<runVars, input>>

SpecClassify == InitClassify /\ [][Classify]_vars

-----------------------------------------------------------------------------
(* EbookPageParser.Parse applied to one document *)

InitEbookParse ==
    /\ RunIdle
    /\ IsDocOf(input, EbookNodePool, MaxNodes)
    /\ output = Pending

EbookParse ==
    /\ output = Pending
    /\ \E f \in ParserFormats :
          LET testers == NewEbookPageParser(f).testers
              r == Parse("ebook", testers, input)
          IN output' = [done |-> TRUE, testers |-> testers, links |-> r.links,
                        err |-> r.err, examined |-> r.examined]
    /\ UNCHANGED <<runVars, input>>

SpecEbookParse == InitEbookParse /\ [][EbookParse]_vars

-----------------------------------------------------------------------------
(* A run of the program: main calls NormalizeURLs and downloads the set.   *)

fileA == <<"/", "a", ".epub">>

fileB == <<"/", "b", ".epub">>

bookA == <<"/", "E", "a", "/", "a">>

bookB == <<"/", "E", "a", "/", "b">>

Node(data, attr, parent) ==
    [Type |-> "element", Data |-> data, Attr |-> attr, Parent |-> parent]

\* <a href=/a.epub></a><a href=/b.epub></a>
pBook == <<Node("a", Href(fileA), 0), Node("a", Href(fileB), 0)>>

\* <li><p><a href=/ebooks/a/a></a><a href=/ebooks/a/b></a></p></li>
pList == <<Node("li", <<>>, 0), Node("p", <<>>, 1),
           Node("a", Href(bookA), 2), Node("a", Href(bookB), 2)>>

\* <li><p><a href=/a.epub></a><a href=%zz.epub></a><a href=/b.epub></a></p></li>
pBad == <<Node("li", <<>>, 0), Node("p", <<>>, 1), Node("a", Href(fileA), 2),
          Node("a", Href(hBadEpub), 2), Node("a", Href(fileB), 2)>>

\* a list page that links the same book twice
pTwice == <<Node("li", <<>>, 0), Node("p", <<>>, 1),
            Node("a", Href(bookA), 2), Node("a", Href(bookA), 2)>>

\* the pages the server may answer with
PagePool == {pBook, pList, pBad, pTwice}

\* what client.Get may hand back when it returns no error: any status (the
\* client follows redirects itself), a body that can or cannot be read to
\* its end
Responses ==
    {[status |-> st, readOK |-> FALSE, doc |-> <<>>] : st \in {200, 404}}
    \cup {[status |-> st, readOK |-> TRUE, doc |-> d] : st \in {200, 404}, d \in PagePool}

FileResponses ==
    {[status |-> st, readOK |-> ok, doc |-> <<>>] : st \in {200, 404}, ok \in BOOLEAN}

uEbook == <<"O", "E", "a", "/", "a">>

uAuthor == <<"O", "E", "a">>

uCollection == <<"O", "C", "a">>

uInvalid == <<"O", "a">>

uForeign == <<"X", "a">>

\* http://example.com/https://standardebooks.org/ebooks/a/a
uEmbedded == <<"X", "O", "E", "a", "/", "a">>

RawURLPool == {uEbook, uAuthor, uCollection, uInvalid, uForeign, uEmbedded}

Nil == [what |-> "nil"]

Init ==
    /\ pc = "main"
    /\ args \in SeqsUpTo(RawURLPool, MaxRawURLs) \ {<<>>}
    /\ formats \in SeqsUpTo(FormatAlphabet, MaxFormatLen)
    /\ rawURLs = <<>> /\ parser = <<>> /\ idx = 0 /\ kind = "none"
    /\ booksURLs = <<>> /\ bidx = 0 /\ urls = <<>> /\ finalURLs = NewURLSet
    /\ err = Nil /\ resp = NoResp /\ timerArmed = FALSE /\ timerC = 0
    /\ slice = <<>> /\ events = <<>> /\ reqLog = <<>>
    /\ input = <<>> /\ output = Pending /\ parseLog = <<>>

\* the runtime fires the pending timer: a tick is put into timer.C
TimerFire ==
    /\ pc \notin {"main", "exit", "fatal"}
    /\ timerArmed
    /\ timerArmed' = FALSE
    /\ timerC' = 1
    /\ UNCHANGED <<pc, args, formats, rawURLs, parser, idx, kind, booksURLs,
                 bidx, urls, finalURLs, err, resp, slice, events, reqLog,
                 input, output, parseLog>>

\* main: time.NewTimer(0), then NormalizeURLs up to its loop
MainStart ==
    /\ pc = "main"
    /\ timerArmed' = TRUE
    /\ timerC' = 0
    /\ rawURLs' = RemoveStringDuplicates(args)
    /\ LET r == NewEbookPageParser(formats)
       IN IF r.bad # NoToken
          THEN /\ err' = [what |-> "format", token |-> r.bad]
               /\ pc' = "returned"
               /\ UNCHANGED <<parser, idx>>
          ELSE /\ parser' = r.testers
               /\ idx' = 1
               /\ pc' = "loop"
               /\ UNCHANGED err
    /\ UNCHANGED <<args, formats, kind, booksURLs, bidx, urls, finalURLs,
                 resp, slice, events, reqLog, input, output, parseLog>>

\* NormalizeURLs: the head of the loop over rawURLs and the choice of a branch
LoopHead ==
    /\ pc = "loop"
    /\ IF idx > Len(rawURLs)
       THEN /\ pc' = "returned"
            /\ UNCHANGED <<kind, err>>
       ELSE LET b == Branch(rawURLs[idx])
            IN IF b \in {"notse", "invalid"}
               THEN /\ err' = [what |-> b, url |-> rawURLs[idx]]
                    /\ pc' = "returned"
                    /\ UNCHANGED kind
               ELSE /\ kind' = b
                    /\ pc' = "twait"
                    /\ UNCHANGED err
    /\ UNCHANGED <<args, formats, rawURLs, parser, idx, booksURLs, bidx,
                 urls, finalURLs, resp, timerArmed, timerC, slice, events,
                 reqLog, input, output, parseLog>>

\* variant: the page is fetched without waiting for the timer
TopWait_Skip ==
    /\ pc = "twait"
    /\ pc' = "tget"
    /\ UNCHANGED <<args, formats, rawURLs, parser, idx, kind, booksURLs,
                 bidx, urls, finalURLs, err, resp, timerArmed, timerC, slice,
                 events, reqLog, input, output, parseLog>>

\* <-timer.C before the page of rawURLs[idx] is fetched
TopWait ==
    /\ pc = "twait"
    /\ timerC = 1
    /\ timerC' = 0
    /\ events' = Append(events, "wait")
    /\ pc' = "tget"
    /\ UNCHANGED <<args, formats, rawURLs, parser, idx, kind, booksURLs,
                 bidx, urls, finalURLs, err, resp, timerArmed, slice, reqLog,
                 input, output, parseLog>>

\* client.Get(rawURL)
TopGet ==
    /\ pc = "tget"
    /\ events' = Append(events, "get")
    /\ reqLog' = Append(reqLog, [url |-> rawURLs[idx], role |-> "top"])
    /\ \/ /\ err' = [what |-> "get", url |-> rawURLs[idx]]
          /\ pc' = "returned"
          /\ UNCHANGED resp
       \/ /\ resp' \in Responses
          /\ pc' = "tparse"
          /\ UNCHANGED err
    /\ UNCHANGED <<args, formats, rawURLs, parser, idx, kind, booksURLs,
                 bidx, urls, finalURLs, timerArmed, timerC, slice, input,
                 output, parseLog>>

\* the parser of the branch reads resp.Body
TopParse ==
    /\ pc = "tparse"
    /\ events' = Append(events, "read")
    /\ IF ~resp.readOK
       THEN /\ err' = [what |-> "parse", url |-> rawURLs[idx]]
            /\ pc' = "returned"
            /\ UNCHANGED <<urls, parseLog>>
       ELSE LET r == Parse(kind, parser, resp.doc)
            IN IF r.err # NoErr
               THEN /\ err' = [what |-> "parse", url |-> rawURLs[idx]]
                    /\ pc' = "returned"
                    /\ UNCHANGED <<urls, parseLog>>
               ELSE /\ urls' = r.links
                    /\ parseLog' = Append(parseLog,
                          [url |-> rawURLs[idx], role |-> "top",
                           parser |-> kind, links |-> r.links])
                    /\ pc' = "treset"
                    /\ UNCHANGED err
    /\ UNCHANGED <<args, formats, rawURLs, parser, idx, kind, booksURLs,
                 bidx, finalURLs, resp, timerArmed, timerC, slice, reqLog,
                 input, output>>

\* variant: a book page is fetched once, however often it is linked
TopReset_FetchOnce ==
    /\ pc = "treset"
    /\ timerArmed' = TRUE
    /\ events' = Append(events, "reset")
    /\ IF kind = "ebook"
       THEN /\ finalURLs' = URLSetAdd(finalURLs, urls)
            /\ idx' = idx + 1
            /\ pc' = "loop"
            /\ UNCHANGED <<booksURLs, bidx>>
       ELSE /\ booksURLs' =
                 SelectSeq(RemoveStringDuplicates(urls),
                           LAMBDA u : \A i \in 1..Len(reqLog) :
                               reqLog[i].url # URLString(ResolveReference(u)))
            /\ bidx' = 1
            /\ pc' = "bloop"
            /\ UNCHANGED <<finalURLs, idx>>
    /\ UNCHANGED <<args, formats, rawURLs, parser, kind, urls, err, resp,
                 timerC, slice, reqLog, input, output, parseLog>>

\* after a successful Parse: finalURLs.Add and timer.Reset (a single ebook),
\* or timer.Reset and the loop over booksURLs (a collection, an author)
TopReset ==
    /\ pc = "treset"
    /\ timerArmed' = TRUE
    /\ events' = Append(events, "reset")
    /\ IF kind = "ebook"
       THEN /\ finalURLs' = URLSetAdd(finalURLs, urls)
            /\ idx' = idx + 1
            /\ pc' = "loop"
            /\ UNCHANGED <<booksURLs, bidx>>
       ELSE /\ booksURLs' = urls
            /\ bidx' = 1
            /\ pc' = "bloop"
            /\ UNCHANGED <<finalURLs, idx>>
    /\ UNCHANGED <<args, formats, rawURLs, parser, kind, urls, err, resp,
                 timerC, slice, reqLog, input, output, parseLog>>

\* the head of the loop over booksURLs
BookLoop ==
    /\ pc = "bloop"
    /\ IF bidx > Len(booksURLs)
       THEN /\ idx' = idx + 1
            /\ pc' = "loop"
       ELSE /\ pc' = "bwait"
            /\ UNCHANGED idx
    /\ UNCHANGED <<args, formats, rawURLs, parser, kind, booksURLs, bidx,
                 urls, finalURLs, err, resp, timerArmed, timerC, slice,
                 events, reqLog, input, output, parseLog>>

\* <-timer.C before a book page is fetched
BookWait ==
    /\ pc = "bwait"
    /\ timerC = 1
    /\ timerC' = 0
    /\ events' = Append(events, "wait")
    /\ pc' = "bget"
    /\ UNCHANGED <<args, formats, rawURLs, parser, idx, kind, booksURLs,
                 bidx, urls, finalURLs, err, resp, timerArmed, slice, reqLog,
                 input, output, parseLog>>

\* the book page that is fetched: StandardEbooksMainURL.ResolveReference(bookURL).String()
CompleteBookURL == URLString(ResolveReference(booksURLs[bidx]))

\* client.Get(completeBookURL.String())
BookGet ==
    /\ pc = "bget"
    /\ events' = Append(events, "get")
    /\ reqLog' = Append(reqLog, [url |-> CompleteBookURL, role |-> "book"])
    /\ \/ /\ err' = [what |-> "get", url |-> CompleteBookURL]
          /\ pc' = "returned"
          /\ UNCHANGED resp
       \/ /\ resp' \in Responses
          /\ pc' = "bparse"
          /\ UNCHANGED err
    /\ UNCHANGED <<args, formats, rawURLs, parser, idx, kind, booksURLs,
                 bidx, urls, finalURLs, timerArmed, timerC, slice, input,
                 output, parseLog>>

\* variant: a book page that fails to parse is skipped, the loop goes on
BookParse_Continue ==
    /\ pc = "bparse"
    /\ events' = Append(events, "read")
    /\ IF ~resp.readOK \/ Parse("ebook", parser, resp.doc).err # NoErr
       THEN /\ err' = [what |-> "parse", url |-> CompleteBookURL]
            /\ timerArmed' = TRUE
            /\ bidx' = bidx + 1
            /\ pc' = "bloop"
            /\ UNCHANGED <<urls, parseLog>>
       ELSE /\ urls' = Parse("ebook", parser, resp.doc).links
            /\ parseLog' = Append(parseLog,
                  [url |-> CompleteBookURL, role |-> "book",
                   parser |-> "ebook", links |-> urls'])
            /\ pc' = "breset"
            /\ UNCHANGED <<err, bidx, timerArmed>>
    /\ UNCHANGED <<args, formats, rawURLs, parser, idx, kind, booksURLs,
                 finalURLs, resp, timerC, slice, reqLog, input, output>>

\* ebookParser.Parse(resp.Body) on a book page; an error breaks the loop
\* over booksURLs and is returned
BookParse ==
    /\ pc = "bparse"
    /\ events' = Append(events, "read")
    /\ IF ~resp.readOK
       THEN /\ err' = [what |-> "parse", url |-> CompleteBookURL]
            /\ pc' = "returned"
            /\ UNCHANGED <<urls, parseLog>>
       ELSE LET r == Parse("ebook", parser, resp.doc)
            IN IF r.err # NoErr
               THEN /\ err' = [what |-> "parse", url |-> CompleteBookURL]
                    /\ pc' = "returned"
                    /\ UNCHANGED <<urls, parseLog>>
               ELSE /\ urls' = r.links
                    /\ parseLog' = Append(parseLog,
                          [url |-> CompleteBookURL, role |-> "book",
                           parser |-> "ebook", links |-> r.links])
                    /\ pc' = "breset"
                    /\ UNCHANGED err
    /\ UNCHANGED <<args, formats, rawURLs, parser, idx, kind, booksURLs,
                 bidx, finalURLs, resp, timerArmed, timerC, slice, reqLog,
                 input, output>>

\* timer.Reset, finalURLs.Add, next book
BookReset ==
    /\ pc = "breset"
    /\ timerArmed' = TRUE
    /\ events' = Append(events, "reset")
    /\ finalURLs' = URLSetAdd(finalURLs, urls)
    /\ bidx' = bidx + 1
    /\ pc' = "bloop"
    /\ UNCHANGED <<args, formats, rawURLs, parser, idx, kind, booksURLs,
                 urls, err, resp, timerC, slice, reqLog, input, output, parseLog>>

\* variant: main goes on to the downloads whatever NormalizeURLs returned
MainCheckErr_IgnoreErr ==
    /\ pc = "returned"
    /\ slice' \in ToSlice(finalURLs)
    /\ pc' = "dloop"
    /\ UNCHANGED <<args, formats, rawURLs, parser, idx, kind, booksURLs,
                 bidx, urls, finalURLs, err, resp, timerArmed, timerC,
                 events, reqLog, input, output, parseLog>>

\* main: log.Fatal(err) when NormalizeURLs returned an error, else urls.ToSlice()
MainCheckErr ==
    /\ pc = "returned"
    /\ IF err # Nil
       THEN /\ pc' = "fatal"
            /\ UNCHANGED slice
       ELSE /\ slice' \in ToSlice(finalURLs)
            /\ pc' = "dloop"
    /\ UNCHANGED <<args, formats, rawURLs, parser, idx, kind, booksURLs,
                 bidx, urls, finalURLs, err, resp, timerArmed, timerC,
                 events, reqLog, input, output, parseLog>>

\* the file that is downloaded: StandardEbooksMainURL.ResolveReference(ebookURL)
FileURL == URLString(ResolveReference(Head(slice)))

\* main: the head of the download loop and os.Create
DlLoop ==
    /\ pc = "dloop"
    /\ IF slice = <<>>
       THEN pc' = "exit"
       ELSE \/ pc' = "dwait"
            \/ pc' = "fatal"
    /\ UNCHANGED <<args, formats, rawURLs, parser, idx, kind, booksURLs,
                 bidx, urls, finalURLs, err, resp, timerArmed, timerC, slice,
                 events, reqLog, input, output, parseLog>>

\* main: <-timer.C before a file is downloaded
DlWait ==
    /\ pc = "dwait"
    /\ timerC = 1
    /\ timerC' = 0
    /\ events' = Append(events, "wait")
    /\ pc' = "dget"
    /\ UNCHANGED <<args, formats, rawURLs, parser, idx, kind, booksURLs,
                 bidx, urls, finalURLs, err, resp, timerArmed, slice, reqLog,
                 input, output, parseLog>>

\* main: client.Get(ebookURL.String())
DlGet ==
    /\ pc = "dget"
    /\ events' = Append(events, "get")
    /\ reqLog' = Append(reqLog, [url |-> FileURL, role |-> "file"])
    /\ \/ /\ pc' = "fatal"
          /\ UNCHANGED resp
       \/ /\ resp' \in FileResponses
          /\ pc' = "dcopy"
    /\ UNCHANGED <<args, formats, rawURLs, parser, idx, kind, booksURLs,
                 bidx, urls, finalURLs, err, timerArmed, timerC, slice,
                 input, output, parseLog>>

\* main: io.Copy(f, resp.Body); its result is dropped
DlCopy ==
    /\ pc = "dcopy"
    /\ events' = Append(events, "read")
    /\ pc' = "dreset"
    /\ UNCHANGED <<args, formats, rawURLs, parser, idx, kind, booksURLs,
                 bidx, urls, finalURLs, err, resp, timerArmed, timerC, slice,
                 reqLog, input, output, parseLog>>

\* variant: the download loop does not re-arm the timer
DlReset_NoRearm ==
    /\ pc = "dreset"
    /\ events' = Append(events, "reset")
    /\ slice' = Tail(slice)
    /\ pc' = "dloop"
    /\ UNCHANGED <<args, formats, rawURLs, parser, idx, kind, booksURLs,
                 bidx, urls, finalURLs, err, resp, timerArmed, timerC, reqLog,
                 input, output, parseLog>>

\* main: timer.Reset(duration), next file
DlReset ==
    /\ pc = "dreset"
    /\ timerArmed' = TRUE
    /\ events' = Append(events, "reset")
    /\ slice' = Tail(slice)
    /\ pc' = "dloop"
    /\ UNCHANGED <<args, formats, rawURLs, parser, idx, kind, booksURLs,
                 bidx, urls, finalURLs, err, resp, timerC, reqLog, input,
                 output, parseLog>>

Next ==
    \/ MainStart \/ TimerFire \/ LoopHead
    \/ TopWait \/ TopGet \/ TopParse \/ TopReset
    \/ BookLoop \/ BookWait \/ BookGet \/ BookParse \/ BookReset
    \/ MainCheckErr \/ DlLoop \/ DlWait \/ DlGet \/ DlCopy \/ DlReset

Spec == Init /\ [][Next]_vars

\* -formats values of the runs checked for termination: one format, two
\* formats, an unknown format
FairFormats == {<<"epub">>, <<"epub", ",", "azw3">>, <<"mobi">>}

InitFair ==
    /\ pc = "main"
    /\ args \in SeqsUpTo(RawURLPool, MaxFairURLs) \ {<<>>}
    /\ formats \in FairFormats
    /\ rawURLs = <<>> /\ parser = <<>> /\ idx = 0 /\ kind = "none"
    /\ booksURLs = <<>> /\ bidx = 0 /\ urls = <<>> /\ finalURLs = NewURLSet
    /\ err = Nil /\ resp = NoResp /\ timerArmed = FALSE /\ timerC = 0
    /\ slice = <<>> /\ events = <<>> /\ reqLog = <<>>
    /\ input = <<>> /\ output = Pending /\ parseLog = <<>>

\* The runtime delivers the tick of an armed timer and the single goroutine
\* keeps running: a step that stays possible is taken.  client.Get and
\* io.Copy are taken to return (a server that answers, a finite body).
FairSpec == InitFair /\ [][Next]_vars /\ WF_vars(Next)

-----------------------------------------------------------------------------
(* Properties of a run *)

Cycle == <<"wait", "get", "read", "reset">>

Gets == {i \in 1..Len(events) : events[i] = "get"}

Roles == {reqLog[i].role : i \in 1..Len(reqLog)}

ClassificationFails ==
    /\ pc = "loop" /\ idx <= Len(rawURLs)
    /\ \/ ~StandardEbooksMainRegex(rawURLs[idx])
       \/ /\ ~EbookURLRegex(rawURLs[idx])
          /\ ~CollectionURLRegex(rawURLs[idx])
          /\ ~AuthorURLRegex(rawURLs[idx])

\* the parse of the response in hand is about to fail
ParseFails ==
    \/ pc \in {"tparse", "bparse"} /\ ~resp.readOK
    \/ pc = "tparse" /\ resp.readOK /\ Parse(kind, parser, resp.doc).err # NoErr
    \/ pc = "bparse" /\ resp.readOK /\ Parse("ebook", parser, resp.doc).err # NoErr

\* C2: NormalizeURLs is fail-fast.  The step of the program taken where a
\* classification or a parse fails, and the step in which a fetch fails,
\* end NormalizeURLs with a non-nil error; from then on no request is
\* issued, no further book page and no further raw URL is visited, nothing
\* is added to the set, and the error stays.
C2_FailFast ==
    /\ [][ /\ (ClassificationFails \/ ParseFails) /\ pc' # pc
              => err' # Nil /\ pc' = "returned"
           /\ pc \in {"tget", "bget"} /\ pc' # pc /\ pc' \notin {"tparse", "bparse"}
              => err' # Nil /\ pc' = "returned"
           /\ err # Nil
              => /\ UNCHANGED <<reqLog, idx, bidx, finalURLs, err, events>>
                 /\ pc' \in {"returned", "fatal"} ]_vars
    /\ [](err # Nil => pc \in {"returned", "fatal"})

\* a book page failed while a book page and a raw URL were still to come
C2_Witness ==
    /\ pc = "fatal"
    /\ err # Nil /\ err.what \in {"get", "parse"}
    /\ reqLog # <<>> /\ reqLog[Len(reqLog)].role = "book"
    /\ bidx < Len(booksURLs)
    /\ idx < Len(rawURLs)

\* C3: when NormalizeURLs returned an error no file is ever requested.
C3_ErrorMeansNoDownload ==
    err # Nil =>
        /\ \A i \in 1..Len(reqLog) : reqLog[i].role # "file"
        /\ pc \in {"returned", "fatal"}
        /\ slice = <<>>

\* the run ended on an error of NormalizeURLs with file links in the set
C3_Witness ==
    /\ pc = "fatal"
    /\ err # Nil
    /\ DOMAIN finalURLs # {}

\* C4 as claimed: a page whose fetch ends in a status outside 2xx makes
\* NormalizeURLs abort, so the code after a successful Parse (Add, Reset) is
\* never reached with such a response in hand.
C4_NonOKStatusAborts ==
    pc \in {"treset", "breset"} => resp.status \in 200..299

\* the raw URL is a URL of https://standardebooks.org/
OnSite(u) == Len(u) > 0 /\ u[1] = "O"

\* C7 as claimed: no request is ever issued for a raw URL that is not a URL
\* of the site, and NormalizeURLs has returned an error once it met one.
C7_ForeignURLRejected ==
    /\ \A i \in 1..Len(reqLog) : reqLog[i].role = "top" => OnSite(reqLog[i].url)
    /\ \A i \in 1..Len(rawURLs) :
          ~OnSite(rawURLs[i]) /\ pc \notin {"main", "loop"} /\ idx >= i
              => err # Nil

\* the tokens of a comma-separated list that name no supported format
UnknownTokens(s) ==
    {SubSeq(s, x[1], x[2]) :
        x \in {y \in (1..(Len(s) + 1)) \X (0..Len(s)) :
                 /\ y[1] <= y[2] + 1
                 /\ \A k \in y[1]..y[2] : s[k] # ","
                 /\ (y[1] = 1 \/ s[y[1] - 1] = ",")
                 /\ (y[2] = Len(s) \/ s[y[2] + 1] = ",")
                 /\ ~(y[1] = y[2] /\ s[y[1]] \in {"epub", "azw3", "kepub", "aepub"})}}

\* C8: with a token outside the four formats in the -formats value,
\* NormalizeURLs returns the error of NewEbookPageParser, which names one of
\* those tokens, and it has neither waited on the timer nor issued a request.
C8_UnknownFormatAborts ==
    UnknownTokens(formats) # {} /\ pc # "main" =>
        /\ err # Nil /\ err.what = "format"
        /\ err.token \in UnknownTokens(formats)
        /\ pc \in {"returned", "fatal"}
        /\ events = <<>> /\ reqLog = <<>>

\* the run ended on the unknown token that follows a known one
C8_Witness ==
    /\ pc = "fatal"
    /\ formats = <<"epub", ",", "mobi">>
    /\ err = [what |-> "format", token |-> <<"mobi">>]

-----------------------------------------------------------------------------
(* Properties of the pure functions *)

\* the rule list of the classifier, on the path of a URL of the site
RuleList(u) ==
    IF EbookAt(u, 1) THEN "ebook"
    ELSE IF AuthorAt(u, 1) THEN "author"
    ELSE IF CollectionAt(u, 1) THEN "collection"
    ELSE "invalid"

\* C6 as claimed: for a URL of the site the branch taken is the one the rule
\* list gives, tried in the order Ebook, Author, Collection, Invalid, each
\* rule a shape of the URL's path.
C6_BranchIsRuleList ==
    output.done /\ OnSite(input) => output.branch = RuleList(input)

Suffixes == [kepub |-> <<".kepub", ".epub">>, aepub |-> <<"_advanced", ".epub">>,
             azw3 |-> <<".azw3">>, epub |-> <<".epub">>]

\* C9: at most one of the four testers accepts a file name, and the epub
\* tester rejects every name that ends in .kepub.epub, _advanced.epub or .azw3.
C9_TestersExclusive ==
    output.done =>
        /\ Cardinality(output.matches) <= 1
        /\ \/ HasSuffix(input, Suffixes.kepub)
           \/ HasSuffix(input, Suffixes.aepub)
           \/ HasSuffix(input, Suffixes.azw3)
           => "epub" \notin output.matches

\* a name in .kepub.epub was tested: kepub and nothing else
C9_Witness ==
    /\ output.done
    /\ HasSuffix(input, Suffixes.kepub)
    /\ output.matches = {"kepub"}

\* node i is an anchor with an href that an active format accepts and that
\* url.Parse rejects
Offending(doc, testers, i) ==
    /\ doc[i].Type = "element" /\ doc[i].Data = "a"
    /\ \E k \in 1..Len(doc[i].Attr) :
          /\ doc[i].Attr[k].Key = "href"
          /\ \E f \in Range(testers) : FormatsTesters(f, doc[i].Attr[k].Val)
          /\ ~URLParseOK(doc[i].Attr[k].Val)

Offenders(doc, testers) == {i \in 1..Len(doc) : Offending(doc, testers, i)}

FirstOffender(doc, testers) ==
    CHOOSE i \in Offenders(doc, testers) : \A j \in Offenders(doc, testers) : i <= j

\* C5 as claimed: the parse stops at the first offending href.  No node
\* after that anchor is examined, the error names that href, and no link
\* comes back with the error.
C5_ParseAbortsAtBadHref ==
    output.done /\ Offenders(input, output.testers) # {} =>
        LET bad == FirstOffender(input, output.testers)
        IN /\ output.err # NoErr
           /\ \E k \in 1..Len(input[bad].Attr) : output.err = input[bad].Attr[k].Val
           /\ \A i \in Range(output.examined) : i <= bad
           /\ output.links = <<>>

RECURSIVE HrefsFrom(_, _)
\* the values of the href attributes of the anchors from node i on, in document order
HrefsFrom(doc, i) ==
    IF i > Len(doc) THEN <<>>
    ELSE LET hs == IF doc[i].Type = "element" /\ doc[i].Data = "a"
                   THEN SelectSeq(doc[i].Attr, LAMBDA at : at.Key = "href")
                   ELSE <<>>
         IN [k \in 1..Len(hs) |-> hs[k].Val] \o HrefsFrom(doc, i + 1)

Accepted(testers, h) == \E f \in Range(testers) : HasSuffix(h, Suffixes[f])
                            /\ (f = "epub" => /\ ~HasSuffix(h, Suffixes.kepub)
                                              /\ ~HasSuffix(h, Suffixes.aepub))

Expected(doc, testers) ==
    SelectSeq(HrefsFrom(doc, 1), LAMBDA h : Accepted(testers, h))

\* <a href=book.epub></a><a href=book.kepub.epub></a><a href=book.azw3></a>
\* <a href=book_advanced.epub></a>
pFormats == <<Node("a", Href(hEpub), 0), Node("a", Href(hKepub), 0),
              Node("a", Href(hAzw3), 0), Node("a", Href(hAepub), 0)>>

\* C10: a parse of an ebook page that ends without error returns, in
\* document order, exactly the hrefs of the anchors that an active format
\* accepts; of book.epub, book.kepub.epub, book.azw3 and book_advanced.epub
\* all four come back with the four formats active, and book.epub alone
\* with epub alone.
C10_EbookLinks ==
    /\ output.done /\ output.err = NoErr
          => output.links = Expected(input, output.testers)
    /\ Parse("ebook", NewEbookPageParser(AllFormats).testers, pFormats).links
          = <<hEpub, hKepub, hAzw3, hAepub>>
    /\ Parse("ebook", NewEbookPageParser(<<"epub">>).testers, pFormats).links
          = <<hEpub>>

\* a nested document was parsed: some hrefs came back, some did not
C10_Witness ==
    /\ output.done /\ output.err = NoErr
    /\ Len(output.links) >= 2
    /\ Len(output.links) < Len(HrefsFrom(input, 1))
    /\ \E i \in 1..Len(input) : input[i].Parent # 0

-----------------------------------------------------------------------------
(* CollectionPageParser.Parse and AuthorPageParser.Parse applied to one    *)
(* document                                                                *)

\* the kinds of node a collection or author page is made of here
ListNodePool ==
    {Elem("li", <<>>), Elem("p", <<>>),
     Elem("p", <<[Key |-> "class", Val |-> <<"meta">>]>>),
     Elem("a", Href(bookA)), Elem("a", Href(bookB))}

InitListParse ==
    /\ RunIdle
    /\ IsDocOf(input, ListNodePool, MaxListNodes)
    /\ output = Pending

ListParse ==
    /\ output = Pending
    /\ LET c == Parse("collection", <<>>, input)
           a == Parse("author", <<>>, input)
       IN output' = [done |-> TRUE,
                     collection |-> [links |-> c.links, err |-> c.err],
                     author |-> [links |-> a.links, err |-> a.err]]
    /\ UNCHANGED <<runVars, input>>

SpecListParse == InitListParse /\ [][ListParse]_vars

\* node i sits in a <p> without attributes that sits in a <li>
InPlainPInLi(doc, i) ==
    /\ doc[i].Parent # 0
    /\ doc[doc[i].Parent].Data = "p"
    /\ doc[doc[i].Parent].Attr = <<>>
    /\ doc[doc[i].Parent].Parent # 0
    /\ doc[doc[doc[i].Parent].Parent].Data = "li"

RECURSIVE ListHrefsFrom(_, _)
\* the hrefs of the anchors from node i on that sit in a plain <p> in a <li>
ListHrefsFrom(doc, i) ==
    IF i > Len(doc) THEN <<>>
    ELSE LET hs == IF doc[i].Data = "a" /\ InPlainPInLi(doc, i)
                   THEN SelectSeq(doc[i].Attr, LAMBDA at : at.Key = "href")
                   ELSE <<>>
         IN [k \in 1..Len(hs) |-> hs[k].Val] \o ListHrefsFrom(doc, i + 1)

\* <li><p><a href=x></a></p></li>
pInP == <<Node("li", <<>>, 0), Node("p", <<>>, 1), Node("a", Href(bookA), 2)>>

\* <li><p class=meta><a href=x></a></p></li>
pInPClass == <<Node("li", <<>>, 0),
               Node("p", <<[Key |-> "class", Val |-> <<"meta">>]>>, 1),
               Node("a", Href(bookA), 2)>>

\* <li><a href=x></a></li>
pInLi == <<Node("li", <<>>, 0), Node("a", Href(bookA), 1)>>

\* C11: on a document that parses without error the collection parser and
\* the author parser return, in document order, exactly the hrefs of the
\* anchors whose parent is a <p> without attributes whose parent is a <li>;
\* li > p > a is included, li > p[class] > a and li > a are not; and the two
\* parsers return the same links and the same error on every document.
C11_ListLinks ==
    /\ output.done => output.collection = output.author
    /\ output.done /\ output.collection.err = NoErr
          => output.collection.links = ListHrefsFrom(input, 1)
    /\ \A w \in {"collection", "author"} :
          /\ Parse(w, <<>>, pInP).links = <<bookA>>
          /\ Parse(w, <<>>, pInPClass).links = <<>>
          /\ Parse(w, <<>>, pInLi).links = <<>>

\* a document with two anchors in li > p and a different href each was
\* parsed, and both links came back in document order
C11_Witness ==
    /\ output.done /\ output.author.err = NoErr
    /\ Len(output.author.links) = 2
    /\ output.author.links[1] # output.author.links[2]
    /\ \E i, j \in 1..Len(input) :
          /\ i < j
          /\ input[i].Data = "a" /\ InPlainPInLi(input, i)
          /\ input[j].Data = "a" /\ InPlainPInLi(input, j)

-----------------------------------------------------------------------------
(* A URLSet under a sequence of Add calls                                  *)

\* URL values to add; the second and the third differ as values (one keeps
\* the escape it was written with) and have the same String()
AddPool == {<<"/", "a">>, <<"/", "a", " ">>, <<"/", "a", "%20">>, <<"/", "b">>}

\* input is the sequence of every URL added so far
InitURLSet ==
    /\ RunIdle
    /\ input = <<>>
    /\ output = [done |-> FALSE, set |-> NewURLSet, before |-> NewURLSet,
                 added |-> <<>>]

\* uset.Add(urls...)
Add ==
    \E us \in SeqsUpTo(AddPool, 2) \ {<<>>} :
        /\ Len(input) + Len(us) <= MaxAdds
        /\ input' = input \o us
        /\ output' = [done |-> TRUE, set |-> URLSetAdd(output.set, us),
                      before |-> output.set, added |-> us]
        /\ UNCHANGED runVars

SpecURLSet == InitURLSet /\ [][Add]_vars

\* the string forms of the members of a set
MemberStrings(set) == {URLString(set[k]) : k \in DOMAIN set}

\* C12: after any sequence of Add calls every ToSlice() has as many members
\* as distinct string forms were added so far, no two of its members have
\* the same string form, and an Add of URLs whose string forms are all
\* present already leaves the number of members unchanged.
C12_URLSetDistinct ==
    /\ \A sl \in ToSlice(output.set) :
          /\ Len(sl) = Cardinality({URLString(u) : u \in Range(input)})
          /\ \A i, j \in 1..Len(sl) :
                i # j => URLString(sl[i]) # URLString(sl[j])
    /\ (\A u \in Range(output.added) :
           URLString(u) \in MemberStrings(output.before))
          => \A sl \in ToSlice(output.set), sb \in ToSlice(output.before) :
                Len(sl) = Len(sb)

\* a URL was added whose string form was in the set under a different value
C12_Witness ==
    /\ output.done
    /\ \E u \in Range(output.added) :
          /\ URLString(u) \in MemberStrings(output.before)
          /\ u \notin {output.before[k] : k \in DOMAIN output.before}
    /\ Cardinality(DOMAIN output.set) = 2

-----------------------------------------------------------------------------
(* RemoveStringDuplicates applied to one list of strings                   *)

StringPool == {<<"x">>, <<"y">>, <<"z">>}

InitDedupe ==
    /\ RunIdle
    /\ input \in SeqsUpTo(StringPool, MaxStrings)
    /\ output = Pending

\* the call of NormalizeURLs, and the same call on its result
Dedupe ==
    /\ output = Pending
    /\ LET once == RemoveStringDuplicates(input)
       IN output' = [done |-> TRUE, once |-> once,
                     twice |-> RemoveStringDuplicates(once)]
    /\ UNCHANGED <<runVars, input>>

SpecDedupe == InitDedupe /\ [][Dedupe]_vars

RECURSIVE FirstOccurrences(_, _)
\* the elements of s from position i on that occur at no earlier position
FirstOccurrences(s, i) ==
    IF i > Len(s) THEN <<>>
    ELSE (IF \E j \in 1..(i - 1) : s[j] = s[i] THEN <<>> ELSE <<s[i]>>)
         \o FirstOccurrences(s, i + 1)

\* C13: RemoveStringDuplicates returns the distinct strings of its input in
\* the order of their first occurrence, and applied to its own result it
\* returns that result unchanged.
C13_FirstOccurrenceOrder ==
    output.done =>
        /\ output.once = FirstOccurrences(input, 1)
        /\ Range(output.once) = Range(input)
        /\ Cardinality(Range(output.once)) = Len(output.once)
        /\ output.twice = output.once

\* a list was deduplicated in which a string recurs after a different one
C13_Witness ==
    /\ output.done
    /\ Len(output.once) = 2
    /\ \E i, j, k \in 1..Len(input) :
          i < j /\ j < k /\ input[i] = input[k] /\ input[i] # input[j]

-----------------------------------------------------------------------------
(* The order of the page fetches of NormalizeURLs                          *)

\* NormalizeURLs has just returned without error
NormalizeOK == pc = "returned" /\ err = Nil

\* the requests for pages, in the order issued
PageFetches == SelectSeq(reqLog, LAMBDA q : q.role \in {"top", "book"})

\* the top-level pages parsed, in the order parsed
TopPages == SelectSeq(parseLog, LAMBDA e : e.role = "top")

\* the fetches one top-level page stands for: the page, then (a page parsed
\* as author or collection page) every link it yielded
FetchesOf(e) ==
    <<[url |-> e.url, role |-> "top"]>>
    \o (IF e.parser \in {"author", "collection"}
        THEN [k \in 1..Len(e.links) |->
                 [url |-> URLString(ResolveReference(e.links[k])),
                  role |-> "book"]]
        ELSE <<>>)

RECURSIVE ExpectedFetches(_)
ExpectedFetches(tops) ==
    IF tops = <<>> THEN <<>>
    ELSE FetchesOf(Head(tops)) \o ExpectedFetches(Tail(tops))

\* C14: when NormalizeURLs returns without error, the top-level pages
\* fetched are the distinct raw URLs in the order of their first occurrence;
\* the page fetches are, for each of them in turn, the page itself followed,
\* when it went through the author or the collection branch, by one fetch of
\* every link it yielded, in order, repeated links included; every fetched
\* page was parsed once, a book page always with the ebook parser.
C14_FetchSequence ==
    NormalizeOK =>
        /\ [i \in 1..Len(TopPages) |-> TopPages[i].url] = FirstOccurrences(args, 1)
        /\ PageFetches = ExpectedFetches(TopPages)
        /\ reqLog = PageFetches
        /\ [i \in 1..Len(parseLog) |-> [url |-> parseLog[i].url, role |-> parseLog[i].role]]
              = PageFetches
        /\ \A i \in 1..Len(parseLog) :
              parseLog[i].role = "book" => parseLog[i].parser = "ebook"

\* an author page and a collection page were expanded to the same two
\* books: six fetches, three for each page, each book fetched twice
C14_Witness ==
    /\ NormalizeOK
    /\ args = <<uAuthor, uCollection>>
    /\ Len(PageFetches) = 6
    /\ \A i \in {2, 3} : PageFetches[i] = PageFetches[i + 3]
    /\ PageFetches[2] # PageFetches[3]

-----------------------------------------------------------------------------
(* The timer discipline and termination                                    *)

Count(seq, x) == Cardinality({i \in 1..Len(seq) : seq[i] = x})

\* the armings not yet used up by a wait: time.NewTimer(0) and every
\* timer.Reset arm once, every <-timer.C uses one arming up
ArmingsLeft == 1 + Count(events, "reset") - Count(events, "wait")

\* the files requested so far
Downloads == SelectSeq(reqLog, LAMBDA q : q.role = "file")

TimerDiscipline ==
    pc # "main" =>
        /\ ArmingsLeft \in {0, 1}
        /\ ArmingsLeft = 1 <=> (timerArmed \/ timerC = 1)
        /\ ~(timerArmed /\ timerC = 1)
        /\ pc \in {"twait", "bwait", "dwait"} => ArmingsLeft = 1
        /\ pc \in {"treset", "breset", "dreset"} => ArmingsLeft = 0

\* the run is over: log.Fatal, or main returned with one download done for
\* every member of the URL Set
Terminated ==
    \/ pc = "fatal"
    \/ /\ pc = "exit"
       /\ Len(Downloads) = Cardinality(DOMAIN finalURLs)
       /\ {Downloads[i].url : i \in 1..Len(Downloads)}
             = {URLString(ResolveReference(finalURLs[k])) : k \in DOMAIN finalURLs}

\* C15: at every wait on the timer exactly one arming (time.NewTimer(0) or
\* a timer.Reset) is outstanding since the previous wait, and no Reset
\* arms a timer that is still armed or whose tick is unread; and every run
\* ends, by log.Fatal or after one download for every member of the URL Set.
C15_WaitsArmedAndRunEnds == []TimerDiscipline /\ <>Terminated

\* a run that expanded a list page to two books and downloaded two files
\* has ended: five waits, each on its own arming
C15_Witness ==
    /\ pc = "exit"
    /\ Len(Downloads) = 2
    /\ Count(events, "wait") = 5
    /\ Count(events, "reset") = Count(events, "wait")

====
